---- MODULE Spec2Model ----
(***************************************************************************)
(* Model of jrnl's Journal (src/jrnl/Journal.py): parsing of the           *)
(* bracketed-date journal text, free-text entry creation, filtering, tag   *)
(* aggregation, sorting, import and the editable round trip.               *)
(*                                                                         *)
(* Text is a sequence of one-character strings.  Positions and slices      *)
(* follow Python: indices are 0-based, Slice(s, i, j) is s[i:j].           *)
(* Entry (jrnl/Entry.py) and the date parser (jrnl/time.py) are not part   *)
(* of the source at hand; they are modelled from the specification.        *)
(***************************************************************************)
EXTENDS Integers, Sequences, FiniteSets, TLC

VARIABLES entries, search_tags, op, pre, arg, ret

vars == <<entries, search_tags, op, pre, arg, ret>>


(***************************************************************************)
(* Python string primitives                                                *)
(***************************************************************************)
NL == "\n"
SP == " "

Min(a, b) == IF a < b THEN a ELSE b
Max(a, b) == IF a > b THEN a ELSE b

\* s[i:j] with Python's clamping of the bounds (i, j >= 0)
Slice(s, i, j) == SubSeq(s, Min(i, Len(s)) + 1, Min(j, Len(s)))

\* s[i:]
From(s, i) == Slice(s, i, Len(s))

\* s[:j]
Upto(s, j) == Slice(s, 0, j)

\* s at 0-based index i
At(s, i) == s[i + 1]

IsSpace(c) == c \in {SP, NL}

RECURSIVE LStrip(_)
LStrip(s) ==
    IF s # <<>> /\ IsSpace(Head(s)) THEN LStrip(Tail(s)) ELSE s

RECURSIVE RStrip(_)
RStrip(s) ==
    IF s # <<>> /\ IsSpace(s[Len(s)]) THEN RStrip(SubSeq(s, 1, Len(s) - 1)) ELSE s

\* str.strip()
Strip(s) == RStrip(LStrip(s))

\* s.startswith(p) at offset i
MatchesAt(s, p, i) == i + Len(p) <= Len(s) /\ Slice(s, i, i + Len(p)) = p

StartsWith(s, p) == MatchesAt(s, p, 0)

EndsWith(s, p) == Len(p) <= Len(s) /\ MatchesAt(s, p, Len(s) - Len(p))

\* str.find(p): index of the first occurrence, -1 when there is none
Find(s, p) ==
    LET hits == {i \in 0..Len(s) : MatchesAt(s, p, i)}
    IN  IF hits = {} THEN -1 ELSE CHOOSE i \in hits : \A j \in hits : i <= j

\* str.replace(p, r): left to right, non-overlapping
RECURSIVE Replace(_, _, _)
Replace(s, p, r) ==
    IF s = <<>> THEN <<>>
    ELSE IF MatchesAt(s, p, 0) THEN r \o Replace(From(s, Len(p)), p, r)
    ELSE <<Head(s)>> \o Replace(Tail(s), p, r)

\* str.lower() on the letters of the model's alphabet
LowerChar(c) == IF c = "B" THEN "b" ELSE IF c = "A" THEN "a" ELSE c

Lower(s) == [i \in 1..Len(s) |-> LowerChar(s[i])]

\* code points, for Python's ordering of strings
Ord(c) ==
    CASE c = NL -> 10 [] c = SP -> 32 [] c = "*" -> 42 [] c = "." -> 46
      [] c = "1" -> 49 [] c = "2" -> 50 [] c = "3" -> 51 [] c = ":" -> 58
      [] c = "@" -> 64 [] c = "A" -> 65 [] c = "B" -> 66 [] c = "[" -> 91
      [] c = "\\" -> 92 [] c = "]" -> 93 [] c = "a" -> 97 [] c = "b" -> 98
      [] c = "n" -> 110 [] c = "x" -> 120 [] OTHER -> 0

\* Python's s < t on strings
RECURSIVE StrLess(_, _)
StrLess(s, t) ==
    IF t = <<>> THEN FALSE
    ELSE IF s = <<>> THEN TRUE
    ELSE IF Ord(Head(s)) # Ord(Head(t)) THEN Ord(Head(s)) < Ord(Head(t))
    ELSE StrLess(Tail(s), Tail(t))

(***************************************************************************)
(* Regular expressions of Journal.py                                       *)
(***************************************************************************)
IsPunct(c) == c \in {"?", "!", "."}

\* index of the first character at or after i that fails test "in cs"
RECURSIVE SkipWhile(_, _, _)
SkipWhile(s, i, cs) ==
    IF i < Len(s) /\ At(s, i) \in cs THEN SkipWhile(s, i + 1, cs) ELSE i

\* end of a match of  \n|[\?!.]+ +\n?  starting exactly at i, or -1
SepMatchEnd(s, i) ==
    IF i >= Len(s) THEN -1
    ELSE IF At(s, i) = NL THEN i + 1
    ELSE IF ~IsPunct(At(s, i)) THEN -1
    ELSE LET p == SkipWhile(s, i, {"?", "!", "."})
             q == SkipWhile(s, p, {SP})
         IN  IF q = p THEN -1
             ELSE IF q < Len(s) /\ At(s, q) = NL THEN q + 1 ELSE q

\* re.search("\n|[\?!.]+ +\n?", s).end(), or -1 when there is no match
SepEnd(s) ==
    LET hits == {i \in 0..Len(s) : SepMatchEnd(s, i) >= 0}
    IN  IF hits = {} THEN -1
        ELSE SepMatchEnd(s, CHOOSE i \in hits : \A j \in hits : i <= j)

\* first_line = raw[:sep.end()].strip() if sep else raw
FirstLine(s) == IF SepEnd(s) >= 0 THEN Strip(Upto(s, SepEnd(s))) ELSE s

\* A match of  (?:^|\n)\[([^\]]+)\]<space>  starting exactly at i:
\* <<start, end, blob>>, or <<>> when there is none.  ^ is the start of the
\* text only (no MULTILINE flag); [^\]]+ runs to the first "]" whatever
\* lies between, newlines and "[" included.
DateBlobMatchAt(s, i) ==
    LET b == IF i = 0 /\ i < Len(s) /\ At(s, i) = "[" THEN i + 1
             ELSE IF i + 1 < Len(s) /\ At(s, i) = NL /\ At(s, i + 1) = "["
                  THEN i + 2
             ELSE -1
    IN  IF b < 0 THEN <<>>
        ELSE LET q == Find(From(s, b), <<"]">>)
             IN  IF q >= 1 /\ MatchesAt(s, <<"]", SP>>, b + q)
                 THEN <<i, b + q + 2, Slice(s, b, b + q)>>
                 ELSE <<>>

\* date_blob_re.finditer(s) from position i on: leftmost, non-overlapping
RECURSIVE FindIter(_, _)
FindIter(s, i) ==
    IF i >= Len(s) THEN <<>>
    ELSE LET m == DateBlobMatchAt(s, i)
         IN  IF m = <<>> THEN FindIter(s, i + 1)
             ELSE <<m>> \o FindIter(s, m[2])

(***************************************************************************)
(* The date parser, time.parse (modelled from the specification's          *)
(* DateOracle): a text resolves to a date or to None.  Dates are 1..3.     *)
(* The parser is fuzzy: it ignores surrounding white space and a trailing  *)
(* "*", knows "now", and knows one period, "m", that spans dates 1..2.     *)
(***************************************************************************)
None == 0

Dates == {1, 2, 3}

Now == 2

NowStr == <<"n", "o", "w">>

DateText(d) == <<CASE d = 1 -> "1" [] d = 2 -> "2" [] d = 3 -> "3" [] OTHER -> "0">>

time_parse(date_str, inclusive) ==
    LET t == Strip(date_str)
        u == IF EndsWith(t, <<"*">>) THEN Strip(Upto(t, Len(t) - 1)) ELSE t
    IN  IF date_str = <<>> THEN None
        ELSE IF u = NowStr THEN Now
        ELSE IF u = <<"m">> THEN (IF inclusive THEN 2 ELSE 1)
        ELSE IF \E d \in Dates : u = DateText(d)
             THEN CHOOSE d \in Dates : u = DateText(d)
        ELSE None

(***************************************************************************)
(* Entry (modelled from the specification)                                 *)
(***************************************************************************)
TagSymbols == {"@"}

WordChars == {"a", "b", "A", "B", "n", "x", "1", "2", "3"}

\* Entry.Entry(journal, date, text, starred): modified starts False
Entry(date, text, starred) ==
    [date |-> date, text |-> text, starred |-> starred, modified |-> FALSE]

\* title: the first line or sentence of the text, trimmed
Title(text) == FirstLine(text)

\* Entry._parse_text: a "*" at either end of the title stars the entry
ParseText(e) ==
    [e EXCEPT !.starred =
        e.starred \/ StartsWith(Title(e.text), <<"*">>)
                  \/ EndsWith(Title(e.text), <<"*">>)]

\* every substring <tagsymbol><word characters> of the text, case preserved
RECURSIVE TagsFrom(_, _)
TagsFrom(text, i) ==
    IF i >= Len(text) THEN {}
    ELSE IF At(text, i) \in TagSymbols
         THEN LET j == SkipWhile(text, i + 1, WordChars)
              IN  IF j > i + 1
                  THEN {Slice(text, i, j)} \cup TagsFrom(text, j)
                  ELSE TagsFrom(text, i + 1)
    ELSE TagsFrom(text, i + 1)

\* entry.tags
EntryTags(e) == TagsFrom(e.text, 0)

\* Entry.__eq__: structural equality on (date, text)
EntryEq(a, b) == a.date = b.date /\ a.text = b.text

\* Entry.__unicode__: the stored form, "[<date-text>] " and the text verbatim
Render(e) == <<"[">> \o DateText(e.date) \o <<"]", SP>> \o e.text

(***************************************************************************)
(* Journal._parse                                                          *)
(***************************************************************************)
\* The loop of _parse over the matches ms[k..]: acc is the entries list,
\* last the value of last_entry_pos.
RECURSIVE ParseLoop(_, _, _, _, _)
ParseLoop(txt, ms, k, acc, last) ==
    IF k > Len(ms)
    THEN IF acc # <<>>
         THEN [acc EXCEPT ![Len(acc)].text = From(txt, last)]
         ELSE acc
    ELSE LET match == ms[k]
             new_date == time_parse(match[3], FALSE)
         IN  IF new_date # None
             THEN LET closed == IF acc # <<>>
                                THEN [acc EXCEPT ![Len(acc)].text =
                                          Slice(txt, last, match[1])]
                                ELSE acc
                  IN  ParseLoop(txt, ms, k + 1,
                                Append(closed, Entry(new_date, <<>>, FALSE)),
                                match[2])
             ELSE ParseLoop(txt, ms, k + 1, acc, last)

_parse(journal_txt) ==
    LET es == ParseLoop(journal_txt, FindIter(journal_txt, 0), 1, <<>>, 0)
    IN  [i \in 1..Len(es) |-> ParseText(es[i])]

(***************************************************************************)
(* Journal operations, as functions of the entries list                    *)
(***************************************************************************)
\* a sort that is not stable: e goes before the entries of its own date
RECURSIVE InsertBeforeEqual(_, _)
InsertBeforeEqual(es, e) ==
    IF es = <<>> THEN <<e>>
    ELSE IF es[Len(es)].date < e.date THEN Append(es, e)
    ELSE Append(InsertBeforeEqual(SubSeq(es, 1, Len(es) - 1), e), es[Len(es)])

\* Python's sorted() is stable: e goes after every entry whose key is <= its own
RECURSIVE InsertByDate(_, _)
InsertByDate(es, e) ==
    IF es = <<>> THEN <<e>>
    ELSE IF es[Len(es)].date <= e.date THEN Append(es, e)
    ELSE Append(InsertByDate(SubSeq(es, 1, Len(es) - 1), e), es[Len(es)])

RECURSIVE SortFrom(_, _, _)
SortFrom(es, k, acc) ==
    IF k > Len(es) THEN acc ELSE SortFrom(es, k + 1, InsertByDate(acc, es[k]))

\* Journal.sort: sorted(self.entries, key=lambda entry: entry.date)
sort(es) == SortFrom(es, 1, <<>>)

\* Journal.limit: if n: self.entries = self.entries[-n:]
limit(es, n) ==
    IF n = 0 THEN es
    ELSE IF n > 0 THEN From(es, Max(Len(es) - n, 0))
    ELSE From(es, 0 - n)

\* a set as a list, in some order
RECURSIVE SetToSeq(_)
SetToSeq(S) ==
    IF S = {} THEN <<>>
    ELSE LET x == CHOOSE y \in S : TRUE IN <<x>> \o SetToSeq(S \ {x})

\* [tag for entry in self.entries for tag in set(entry.tags)]
RECURSIVE TagList(_, _)
TagList(es, k) ==
    IF k > Len(es) THEN <<>>
    ELSE SetToSeq(EntryTags(es[k])) \o TagList(es, k + 1)

\* list.count
Count(xs, x) == Cardinality({i \in 1..Len(xs) : xs[i] = x})

\* the order on the tuples taken as (tag, count)
PairLessByName(a, b) == StrLess(a[2], b[2]) \/ (a[2] = b[2] /\ a[1] < b[1])

\* Python's order on the tuples (count, tag)
PairLess(a, b) == a[1] < b[1] \/ (a[1] = b[1] /\ StrLess(a[2], b[2]))

\* sorted() of a set of (count, tag) tuples, no two of which are equal
RECURSIVE SortPairs(_)
SortPairs(S) ==
    IF S = {} THEN <<>>
    ELSE LET m == CHOOSE x \in S : \A y \in S \ {x} : PairLess(x, y)
         IN  <<m>> \o SortPairs(S \ {m})

\* Journal.tags
tags(es) ==
    LET tl == TagList(es, 1)
        tag_counts == {<<Count(tl, tl[i]), tl[i]>> : i \in 1..Len(tl)}
        sorted == SortPairs(tag_counts)
    IN  [i \in 1..Len(sorted) |-> [name |-> sorted[i][2], count |-> sorted[i][1]]]

\* set([tag.lower() for tag in tags])
LowerSet(tag_list) == {Lower(tag_list[i]) : i \in 1..Len(tag_list)}

\* strict and non-strict matching exchanged
taggedSwapped(search, strict, etags) ==
    IF strict THEN (search \cap etags) # {} ELSE search \subseteq etags

\* tagged = search_tags.issubset if strict else search_tags.intersection,
\* applied to entry.tags and read as a truth value
tagged(search, strict, etags) ==
    IF strict THEN search \subseteq etags ELSE (search \cap etags) # {}

\* the end date taken as an exclusive bound
FilterKeepsBeforeEnd(e, tag_list, start_date, end_date, starred, strict) ==
    /\ (tag_list = <<>> \/ tagged(LowerSet(tag_list), strict, EntryTags(e)))
    /\ (~starred \/ e.starred)
    /\ (start_date = None \/ e.date >= start_date)
    /\ (end_date = None \/ e.date < end_date)

\* the condition of the list comprehension of Journal.filter
FilterKeeps(e, tag_list, start_date, end_date, starred, strict) ==
    /\ (tag_list = <<>> \/ tagged(LowerSet(tag_list), strict, EntryTags(e)))
    /\ (~starred \/ e.starred)
    /\ (start_date = None \/ e.date >= start_date)
    /\ (end_date = None \/ e.date <= end_date)

RECURSIVE SelectEntries(_, _, _, _, _, _, _)
SelectEntries(es, k, tag_list, start_date, end_date, starred, strict) ==
    IF k > Len(es) THEN <<>>
    ELSE (IF FilterKeeps(es[k], tag_list, start_date, end_date, starred, strict)
          THEN <<es[k]>> ELSE <<>>)
         \o SelectEntries(es, k + 1, tag_list, start_date, end_date, starred, strict)

\* Journal.filter: the new entries list; the date arguments are texts
filter(es, tag_list, start_txt, end_txt, starred, strict) ==
    LET end_date == time_parse(end_txt, TRUE)
        start_date == time_parse(start_txt, FALSE)
    IN  SelectEntries(es, 1, tag_list, start_date, end_date, starred, strict)

\* Journal.new_entry without an explicit date: the entry that is built
new_entry(raw_in) ==
    LET raw0 == Replace(Replace(raw_in, <<"\\", "n", SP>>, <<NL>>),
                        <<"\\", "n">>, <<NL>>)
        first_line == FirstLine(raw0)
        colon_pos == Find(first_line, <<":", SP>>)
        date1 == IF colon_pos > 0 THEN time_parse(Upto(raw0, colon_pos), FALSE)
                 ELSE None
        starred1 == date1 # None
                    /\ EndsWith(Strip(Upto(raw0, colon_pos)), <<"*">>)
        raw1 == IF date1 # None THEN Strip(From(raw0, colon_pos + 1)) ELSE raw0
        starred == starred1 \/ StartsWith(first_line, <<"*">>)
                            \/ EndsWith(first_line, <<"*">>)
        date == IF date1 = None THEN time_parse(NowStr, FALSE) ELSE date1
    IN  [Entry(date, raw1, starred) EXCEPT !.modified = TRUE]

\* self.entries.append(entry); if sort: self.sort()
new_entry_entries(es, raw_in, do_sort) ==
    IF do_sort THEN sort(Append(es, new_entry(raw_in)))
    ELSE Append(es, new_entry(raw_in))

\* the members of a frozenset built from the list es: one entry of each
\* class of equal entries, the first that was added
Dedup(es) ==
    {i \in 1..Len(es) : \A j \in 1..(i - 1) : ~EntryEq(es[j], es[i])}

Perms(S) ==
    {f \in [1..Cardinality(S) -> S] : \A x \in S : \E i \in DOMAIN f : f[i] = x}

\* the two lists concatenated, equal entries kept
importAll(es, other_journal_txt) == {sort(es \o _parse(other_journal_txt))}

\* Journal.import_: list(frozenset(self.entries) | frozenset(self._parse(txt)))
\* comes in any order; then self.sort().  The set of possible results.
import_(es, other_journal_txt) ==
    LET all == es \o _parse(other_journal_txt)
    IN  {sort([k \in 1..Len(p) |-> all[p[k]]]) : p \in Perms(Dedup(all))}

RECURSIVE Join(_, _)
Join(sep, parts) ==
    IF parts = <<>> THEN <<>>
    ELSE IF Len(parts) = 1 THEN parts[1]
    ELSE parts[1] \o sep \o Join(sep, Tail(parts))

\* Journal.editable_str: "\n".join([e.__unicode__() for e in self.entries])
editable_str(es) == Join(<<NL>>, [i \in 1..Len(es) |-> Render(es[i])])

\* the parsed entries compared with the prior ones by position
parseEditablePositional(es, edited) ==
    LET mod_entries == _parse(edited)
    IN  [i \in 1..Len(mod_entries) |->
            [mod_entries[i] EXCEPT !.modified =
                ~(i <= Len(es) /\ EntryEq(mod_entries[i], es[i]))]]

\* Journal.parse_editable_str
parse_editable_str(es, edited) ==
    LET mod_entries == _parse(edited)
    IN  [i \in 1..Len(mod_entries) |->
            [mod_entries[i] EXCEPT !.modified =
                ~\E j \in 1..Len(es) : EntryEq(mod_entries[i], es[j])]]

(***************************************************************************)
(* The journal as a state machine.  entries and search_tags are the        *)
(* Journal's fields (search_tags is <<>> for None, <<S>> for the set S);   *)
(* op, pre, arg and ret record the last call: its name, the entries        *)
(* before it, its arguments and what it returned.                          *)
(***************************************************************************)
MaxEntries == 2

Marker(d) == <<"[">> \o DateText(d) \o <<"]", SP>>

\* journal texts handed to import_ and parse_editable_str
JournalTexts ==
    { Marker(1) \o <<"a", NL>> \o Marker(2) \o <<"@", "b">>,
      Marker(2) \o <<"c", NL>> \o Marker(1) \o <<"a">>,
      Marker(2) \o <<"c", NL>> \o Marker(2) \o <<"a", NL>> \o Marker(2) \o <<"c">> }

\* raw inputs of new_entry
Raws ==
    { <<"a">>,
      <<"1", ":", SP, "c">>,
      <<"a", "\\", "n">> \o Marker(1) \o <<"c">> }

Limits == {0, 1, 0 - 1}

TagLists == {<<>>, <<<<"@", "B">>>>}

Init ==
    /\ entries = <<>>
    /\ search_tags = <<>>
    /\ op = "init"
    /\ pre = <<>>
    /\ arg = <<>>
    /\ ret = <<>>

Sort ==
    /\ entries' = sort(entries)
    /\ op' = "sort" /\ pre' = entries /\ arg' = <<>> /\ ret' = <<>>
    /\ UNCHANGED search_tags

Limit(n) ==
    /\ entries' = limit(entries, n)
    /\ op' = "limit" /\ pre' = entries /\ arg' = [n |-> n] /\ ret' = <<>>
    /\ UNCHANGED search_tags

Tags ==
    /\ ret' = tags(entries)
    /\ op' = "tags" /\ pre' = entries /\ arg' = <<>>
    /\ UNCHANGED <<entries, search_tags>>

Filter(tag_list, start_txt, end_txt, starred, strict) ==
    /\ search_tags' = <<LowerSet(tag_list)>>
    /\ entries' = filter(entries, tag_list, start_txt, end_txt, starred, strict)
    /\ op' = "filter" /\ pre' = entries /\ ret' = <<>>
    /\ arg' = [tags |-> tag_list, start_date |-> start_txt, end_date |-> end_txt,
               starred |-> starred, strict |-> strict]

NewEntry(raw, do_sort) ==
    /\ Len(entries) < MaxEntries
    /\ entries' = new_entry_entries(entries, raw, do_sort)
    /\ op' = "new_entry" /\ pre' = entries /\ ret' = new_entry(raw)
    /\ arg' = [raw |-> raw, sort |-> do_sort]
    /\ UNCHANGED search_tags

Import(txt) ==
    /\ Len(entries) < MaxEntries
    /\ entries' \in import_(entries, txt)
    /\ op' = "import_" /\ pre' = entries /\ ret' = <<>>
    /\ arg' = [text |-> txt]
    /\ UNCHANGED search_tags

ParseEditableStr(edited) ==
    /\ entries' = parse_editable_str(entries, edited)
    /\ op' = "parse_editable_str" /\ pre' = entries /\ ret' = <<>>
    /\ arg' = [text |-> edited]
    /\ UNCHANGED search_tags

\* the journal is handed to an editor and comes back untouched:
\* parse_editable_str(editable_str())
EditUnchanged ==
    /\ entries' = parse_editable_str(entries, editable_str(entries))
    /\ op' = "edit_unchanged" /\ pre' = entries /\ ret' = <<>>
    /\ arg' = [text |-> editable_str(entries)]
    /\ UNCHANGED search_tags

Next ==
    \/ Sort
    \/ \E n \in Limits : Limit(n)
    \/ \E tl \in TagLists : Filter(tl, <<"2">>, <<>>, FALSE, FALSE)
    \/ \E raw \in Raws, do_sort \in BOOLEAN : NewEntry(raw, do_sort)
    \/ \E txt \in JournalTexts : Import(txt)
    \/ \E txt \in JournalTexts : ParseEditableStr(txt)
    \/ EditUnchanged

Spec == Init /\ [][Next]_vars

(***************************************************************************)
(* Properties of the journal operations (specification Spec)               *)
(***************************************************************************)
IsSorted(es) == \A i \in 1..(Len(es) - 1) : es[i].date <= es[i + 1].date

WithDate(es, d) == SelectSeq(es, LAMBDA e : e.date = d)

\* ys holds the entries of xs and no others, those of equal date in the
\* order they have in xs
SameEntriesStable(xs, ys) ==
    /\ Len(xs) = Len(ys)
    /\ \A d \in Dates : WithDate(xs, d) = WithDate(ys, d)

Occurs(e, es) == \E j \in 1..Len(es) : EntryEq(e, es[j])

C2_RoundTrip ==
    op = "edit_unchanged" =>
        /\ arg.text = editable_str(pre)
        /\ Len(entries) = Len(pre)
        /\ \A i \in 1..Len(pre) :
              i <= Len(entries) =>
                  EntryEq(entries[i], pre[i]) /\ ~entries[i].modified

\* no text of es holds a line that begins with "["
NoLineStartsWithBracket(es) ==
    \A i \in 1..Len(es) : Find(es[i].text, <<NL, "[">>) < 0

\* C2 holds of every journal none of whose texts holds such a line
RoundTripWithoutBracketLines ==
    (op = "edit_unchanged" /\ NoLineStartsWithBracket(pre)) =>
        /\ Len(entries) = Len(pre)
        /\ \A i \in 1..Len(pre) :
              EntryEq(entries[i], pre[i]) /\ ~entries[i].modified

\* C7: after import_(other_text) the entries are the union, under
\* (date, text) equality, of the prior entries and those parsed from
\* other_text: each of them is present, nothing else is, no two entries of
\* the result are equal, and the result is in non-decreasing date order.
C7_ImportIsSetUnion ==
    op = "import_" =>
        LET parsed == _parse(arg.text)
        IN  /\ \A j \in 1..Len(pre) : Occurs(pre[j], entries)
            /\ \A j \in 1..Len(parsed) : Occurs(parsed[j], entries)
            /\ \A i \in 1..Len(entries) :
                  Occurs(entries[i], pre) \/ Occurs(entries[i], parsed)
            /\ \A i, j \in 1..Len(entries) :
                  i # j => ~EntryEq(entries[i], entries[j])
            /\ IsSorted(entries)

C7_Witness ==
    /\ op = "import_"
    /\ pre # <<>>
    /\ Len(entries) >= 2
    /\ Len(entries) < Len(pre) + Len(_parse(arg.text))
    /\ \E j \in 1..Len(_parse(arg.text)) : ~Occurs(_parse(arg.text)[j], pre)

KeepsOrder ==
    \/ op \in {"sort", "import_", "filter", "limit"}
    \/ (op = "new_entry" /\ arg.sort)

\* C10: sort, import_, new_entry(sort=True), filter and limit leave a
\* date-ordered journal date-ordered; sort puts any journal in date order
\* without adding or removing an entry and without reordering entries of
\* equal date.
C10_DateOrder ==
    /\ (KeepsOrder /\ IsSorted(pre)) => IsSorted(entries)
    /\ op = "sort" => IsSorted(entries) /\ SameEntriesStable(pre, entries)

C10_Witness ==
    /\ op = "sort"
    /\ ~IsSorted(pre)
    /\ \E i, j \in 1..Len(entries) :
          i < j /\ entries[i].date = entries[j].date
                /\ entries[i].text # entries[j].text

(***************************************************************************)
(* Filtering and tag aggregation on an opened journal (SpecFilter)         *)
(***************************************************************************)
\* journal files opened by SpecFilter
OpenTexts ==
    { Marker(1) \o <<"@", "a", SP, "@", "a", NL>>
        \o Marker(2) \o <<"*", "@", "a", SP, "@", "b", NL>>
        \o Marker(3) \o <<"@", "B">>,
      Marker(1) \o <<"@", "a", SP, "x", NL>>
        \o Marker(2) \o <<"@", "b", NL>>
        \o Marker(2) \o <<"@", "a", SP, "@", "b", "*">>,
      Marker(3) \o <<"@", "b", NL>>
        \o Marker(1) \o <<"x", NL>>
        \o Marker(1) \o <<"@", "B", SP, "@", "b">> }

FilterTags ==
    { <<>>, <<<<"@", "a">>>>, <<<<"@", "B">>>>, <<<<"@", "A">>, <<"@", "b">>>> }

FilterStarts == { <<>>, <<"2">>, <<"x">> }

FilterEnds == { <<>>, <<"m">>, <<"1">> }

\* a Journal that open_journal has constructed and not yet opened, on a
\* file whose text is one of texts
InitFile(texts) ==
    /\ entries = <<>>
    /\ search_tags = <<>>
    /\ op = "new"
    /\ pre = <<>>
    /\ arg \in {[text |-> t] : t \in texts}
    /\ ret = <<>>

\* Journal.open, called once by open_journal:
\* self.entries = self._parse(text); self.sort()
Open ==
    /\ op = "new"
    /\ entries' = sort(_parse(arg.text))
    /\ op' = "open" /\ pre' = entries /\ ret' = _parse(arg.text)
    /\ UNCHANGED <<arg, search_tags>>

NextFilter ==
    \/ Open
    \/ /\ op # "new"
       /\ \E tl \in FilterTags, sd \in FilterStarts, ed \in FilterEnds,
             st \in BOOLEAN, strict \in BOOLEAN : Filter(tl, sd, ed, st, strict)
    \/ (op # "new" /\ Tags)

SpecFilter == InitFile(OpenTexts) /\ [][NextFilter]_vars

\* what the contract of filter asks of an entry that is kept
Matches(e, a) ==
    LET wanted == {Lower(a.tags[i]) : i \in 1..Len(a.tags)}
        from == time_parse(a.start_date, FALSE)
        to == time_parse(a.end_date, TRUE)
    IN  /\ \/ a.tags = <<>>
           \/ (a.strict /\ \A t \in wanted : t \in EntryTags(e))
           \/ (~a.strict /\ \E t \in wanted : t \in EntryTags(e))
        /\ a.starred => e.starred
        /\ from # None => e.date >= from
        /\ to # None => e.date <= to

\* xs is a subsequence of ys
RECURSIVE IsSubseq(_, _)
IsSubseq(xs, ys) ==
    IF xs = <<>> THEN TRUE
    ELSE IF ys = <<>> THEN FALSE
    ELSE IF Head(xs) = Head(ys) THEN IsSubseq(Tail(xs), Tail(ys))
    ELSE IsSubseq(xs, Tail(ys))

\* C3: after filter the entries are exactly the prior entries, in their
\* prior order, that satisfy the tag condition (none for an empty tag
\* list; all requested tags, lowercased, if strict, else at least one), the
\* starred condition and both inclusive date bounds (a bound that does not
\* resolve is no bound); search_tags is the lowercased set of the
\* requested tags.
C3_FilterContract ==
    op = "filter" =>
        /\ entries = SelectSeq(pre, LAMBDA e : Matches(e, arg))
        /\ search_tags = <<{Lower(arg.tags[i]) : i \in 1..Len(arg.tags)}>>

C3_Witness ==
    /\ op = "filter"
    /\ arg.tags # <<>> /\ arg.strict /\ arg.starred
    /\ time_parse(arg.end_date, TRUE) # None
    /\ entries # <<>>
    /\ Len(entries) < Len(pre)
    /\ \E i \in 1..Len(entries) : entries[i].date = time_parse(arg.end_date, TRUE)

\* C9: with the same tags, dates and starred flag, what a strict filter
\* keeps is part of what a non-strict filter keeps, on the same journal.
C9_StrictWithinNonStrict ==
    /\ \A tl \in FilterTags, sd \in FilterStarts, ed \in FilterEnds, st \in BOOLEAN :
          IsSubseq(filter(entries, tl, sd, ed, st, TRUE),
                   filter(entries, tl, sd, ed, st, FALSE))
    /\ op = "filter" =>
          LET other == filter(pre, arg.tags, arg.start_date, arg.end_date,
                              arg.starred, ~arg.strict)
          IN  IF arg.strict THEN IsSubseq(entries, other)
              ELSE IsSubseq(other, entries)

C9_Witness ==
    /\ op = "filter"
    /\ arg.strict /\ Len(arg.tags) >= 2
    /\ entries # <<>>
    /\ Len(entries) < Len(filter(pre, arg.tags, arg.start_date, arg.end_date,
                                 arg.starred, FALSE))

AllTags(es) == UNION {EntryTags(es[k]) : k \in 1..Len(es)}

\* C4: tags returns one Tag per distinct tag of the journal, counted by
\* the number of entries whose tag set holds it, in ascending order of
\* (count, name); the entries are left as they were.
C4_TagAggregation ==
    op = "tags" =>
        /\ entries = pre
        /\ {ret[i].name : i \in 1..Len(ret)} = AllTags(pre)
        /\ Len(ret) = Cardinality(AllTags(pre))
        /\ \A i \in 1..Len(ret) :
              ret[i].count =
                  Cardinality({k \in 1..Len(pre) : ret[i].name \in EntryTags(pre[k])})
        /\ \A i, j \in 1..Len(ret) :
              i < j => \/ ret[i].count < ret[j].count
                       \/ /\ ret[i].count = ret[j].count
                          /\ StrLess(ret[i].name, ret[j].name)

C4_Witness ==
    /\ op = "tags"
    /\ \E i, j \in 1..Len(ret) : i < j /\ ret[i].count = ret[j].count
    /\ \E i, j \in 1..Len(ret) :
          i < j /\ ret[i].count < ret[j].count /\ StrLess(ret[j].name, ret[i].name)
    /\ \E k \in 1..Len(pre) :
          MatchesAt(pre[k].text, <<"@", "a", SP, "@", "a">>, 0)

(***************************************************************************)
(* Free-text entry creation (SpecNewEntry)                                 *)
(***************************************************************************)
Leads == { <<>>, <<SP>> }

Prefixes == { <<>>, <<"1">>, <<"1", "2">>, <<"3", "*">>, <<"x">>, <<"*", "a">> }

Colons == { <<":", SP>>, <<":">> }

Bodies ==
    { <<"a">>,
      <<"a", ".", SP, "b">>,
      <<"a", "\\", "n", "@", "b">>,
      <<"a", "\\", "n", SP, "b", "*">> }

\* raw inputs of new_entry: white space, a date attempt, a separator, a body
RawInputs ==
    { lead \o pfx \o col \o body :
        lead \in Leads, pfx \in Prefixes, col \in Colons, body \in Bodies }

NextNewEntry == \E raw \in RawInputs, do_sort \in BOOLEAN : NewEntry(raw, do_sort)

SpecNewEntry == Init /\ [][NextNewEntry]_vars

\* the input with its literal \n escapes turned into newlines
Normalized(raw) ==
    Replace(Replace(raw, <<"\\", "n", SP>>, <<NL>>), <<"\\", "n">>, <<NL>>)

\* the first line of the input holds a ": " separator
HasSeparator(raw) == Find(FirstLine(Normalized(raw)), <<":", SP>>) >= 0

\* where that separator stands in the input: white space before the first
\* line holds no ":", so it is the first ": " of the input
SeparatorPos(raw) == Find(Normalized(raw), <<":", SP>>)

\* everything before the separator
DatePrefix(raw) == Upto(Normalized(raw), SeparatorPos(raw))

PrefixResolves(raw) ==
    HasSeparator(raw) /\ time_parse(DatePrefix(raw), FALSE) # None

\* C5 (as claimed): when the first line has no ": " separator, or what
\* stands before it does not resolve, the new entry's text is the whole
\* normalized input and its date is the resolution of "now".
C5_FallsBackToNow ==
    (op = "new_entry" /\ ~PrefixResolves(arg.raw)) =>
        /\ ret.text = Normalized(arg.raw)
        /\ ret.date = time_parse(NowStr, FALSE)

\* C6 (as claimed): when the first line has a ": " separator and what
\* stands before it resolves, the new entry has that date, its text is the
\* input without that prefix and the separator, trimmed, and it is starred
\* when a "*" stands right before the separator.
C6_DatePrefixConsumed ==
    (op = "new_entry" /\ PrefixResolves(arg.raw)) =>
        /\ ret.date = time_parse(DatePrefix(arg.raw), FALSE)
        /\ ret.text = Strip(From(Normalized(arg.raw), SeparatorPos(arg.raw) + 2))
        /\ EndsWith(DatePrefix(arg.raw), <<"*">>) => ret.starred

\* the first line is cut by a newline or sentence end and the input begins
\* with white space: first_line is then a trimmed copy, and its positions
\* are not those of the input
Misaligned(raw) ==
    /\ SepEnd(Normalized(raw)) >= 0
    /\ Normalized(raw) # <<>>
    /\ IsSpace(Head(Normalized(raw)))

\* C5 and C6 hold of every input whose first line is not such a trimmed copy
NewEntryAligned ==
    (op = "new_entry" /\ ~Misaligned(arg.raw)) =>
        IF PrefixResolves(arg.raw)
        THEN /\ ret.date = time_parse(DatePrefix(arg.raw), FALSE)
             /\ ret.text = Strip(From(Normalized(arg.raw), SeparatorPos(arg.raw) + 2))
             /\ EndsWith(DatePrefix(arg.raw), <<"*">>) => ret.starred
        ELSE /\ ret.text = Normalized(arg.raw)
             /\ ret.date = time_parse(NowStr, FALSE)

(***************************************************************************)
(* Parsing of journal files (SpecParse)                                    *)
(***************************************************************************)
MaxLines == 3

Lines ==
    { Marker(1) \o <<"a">>,
      Marker(2) \o <<"b", "*">>,
      <<"[", "x", "]", SP, "c">>,
      <<"[", "x">>,
      <<"[", "1", "]", "b">>,
      <<"a">> }

\* journal files of up to MaxLines lines
ParseTexts ==
    UNION { {Join(<<NL>>, ls) : ls \in [1..n -> Lines]} : n \in 1..MaxLines }

SpecParse == InitFile(ParseTexts) /\ [][Open]_vars

\* a "[...] " marker begins at p: "[" at the start of the text or of a
\* line, some content, the first "]" after it, a space
IsMarker(t, p) ==
    /\ p < Len(t) /\ At(t, p) = "["
    /\ (p = 0 \/ At(t, p - 1) = NL)
    /\ LET q == Find(From(t, p + 1), <<"]">>)
       IN  q >= 1 /\ MatchesAt(t, <<"]", SP>>, p + 1 + q)

MarkerContent(t, p) == Slice(t, p + 1, p + 1 + Find(From(t, p + 1), <<"]">>))

MarkerEnd(t, p) == p + 1 + Find(From(t, p + 1), <<"]">>) + 2

ResolvingMarkers(t) ==
    {p \in 0..Len(t) : IsMarker(t, p) /\ time_parse(MarkerContent(t, p), FALSE) # None}

RECURSIVE Ascending(_)
Ascending(S) ==
    IF S = {} THEN <<>>
    ELSE LET m == CHOOSE x \in S : \A y \in S : x <= y
         IN  <<m>> \o Ascending(S \ {m})

\* C8 (as claimed): _parse returns one entry per marker whose content
\* resolves, dated by that content; its text runs from just after its
\* marker to just before the next resolving marker, or to the end of the
\* input; a text without a resolving marker yields no entry.
C8_OneEntryPerResolvingMarker ==
    op = "open" =>
        LET t == arg.text
            ps == Ascending(ResolvingMarkers(t))
        IN  /\ Len(ret) = Len(ps)
            /\ \A i \in 1..Len(ps) :
                  i <= Len(ret) =>
                      /\ ret[i].date = time_parse(MarkerContent(t, ps[i]), FALSE)
                      /\ ret[i].text =
                            Slice(t, MarkerEnd(t, ps[i]),
                                  IF i < Len(ps) THEN ps[i + 1] - 1 ELSE Len(t))

\* the content of a marker that does not resolve runs over a line end
Swallows(t) ==
    \E p \in 0..Len(t) :
        /\ IsMarker(t, p)
        /\ time_parse(MarkerContent(t, p), FALSE) = None
        /\ Find(MarkerContent(t, p), <<NL>>) >= 0

\* C8 holds of every text in which no such marker occurs
ParseWithinLines ==
    (op = "open" /\ ~Swallows(arg.text)) =>
        LET t == arg.text
            ps == Ascending(ResolvingMarkers(t))
        IN  /\ Len(ret) = Len(ps)
            /\ \A i \in 1..Len(ps) :
                  /\ ret[i].date = time_parse(MarkerContent(t, ps[i]), FALSE)
                  /\ ret[i].text =
                        Slice(t, MarkerEnd(t, ps[i]),
                              IF i < Len(ps) THEN ps[i + 1] - 1 ELSE Len(t))

====
